---- MODULE Spec2Model ----
(***************************************************************************)
(* A model of simple_elastic.ElasticIndex (src/simple_elastic/index.py):   *)
(* one handle on one index of a remote Elasticsearch service, its          *)
(* lifecycle (construct / create / delete), point operations (get,         *)
(* index_into), the scroll generator, bulk, reindex and dump.              *)
(*                                                                         *)
(* The remote service is the environment.  Its state is `indices`: for     *)
(* each index name whether it exists, the type its mapping fixes for the   *)
(* field "object", its settings and its documents by _id.  Python          *)
(* exceptions are outcomes named by the exception class.                   *)
(***************************************************************************)
EXTENDS Integers, Sequences, FiniteSets, TLC

VARIABLES
    indices,    \* remote service: index name -> index state
    self,       \* the ElasticIndex object the caller holds (or NoHandle)
    new_index,  \* the handle reindex returned last (or NoHandle)
    nextAuto,   \* number of identifiers the remote service has auto-assigned
    gen,        \* the scroll generator the caller holds, with its server-side cursor
    file,       \* content of the file dump wrote last
    last        \* the operation completed last: its name, inputs and outcome

vars == <<indices, self, new_index, nextAuto, gen, file, last>>

(***************************************************************************)
(* Bounds of the model.                                                    *)
(***************************************************************************)
MaxAuto == 2        \* identifiers the remote service may auto-assign
MaxSize == 2        \* largest batch size a caller passes to scroll
MaxData == 2        \* longest list of documents a caller passes to bulk
MaxStored == 2      \* most documents an index holds before the caller's operation

(***************************************************************************)
(* Program constants.                                                      *)
(***************************************************************************)
DefaultScrollSize == 100    \* scroll(..., size=100, ...)
ReindexScrollSize == 500    \* reindex: self.scroll(size=500)

None == "None"
Names == {"test", "new", "old"}
\* the n-th identifier the remote service assigns by itself
AutoIds == <<"g1", "g2", "g3", "g4", "g5", "g6", "g7", "g8">>
AutoId(n) == AutoIds[n]

\* a Python dict is a function on the set of its keys
EmptyDict == [k \in {} |-> None]
Put(d, k, v) == [x \in DOMAIN d \cup {k} |-> IF x = k THEN v ELSE d[x]]
Pop(d, k) == [x \in DOMAIN d \ {k} |-> d[x]]
Merge(d, e) == [x \in DOMAIN d \cup DOMAIN e |-> IF x \in DOMAIN e THEN e[x] ELSE d[x]]

\* documents: an optional field "id" (a string) and an optional field
\* "object" whose value is a string ("s") or a nested object ("o")
\* the documents callers pass to bulk, and that an index may hold to begin with
InputDocs ==
    { [id |-> "a", object |-> "s"], [id |-> "a"], [id |-> "b", object |-> "s"],
      [id |-> ""], [object |-> "o"] }

\* the documents callers pass to index_into
PointDocs == { [object |-> "s"], [object |-> "o"], [id |-> "a"] }

NoIndex == [exists |-> FALSE, mapping |-> "dynamic", settings |-> None, docs |-> EmptyDict]
NoHandle == [index |-> None, mapping |-> None, settings |-> None]

\* ElasticIndex._default_settings()
default_settings == "default_settings"

(***************************************************************************)
(* The remote service, as the calls of index.py see it.                    *)
(***************************************************************************)
\* instance.indices.exists(index)
IndicesExists(idx, name) == idx[name].exists

\* instance.indices.delete(index): NotFoundError when there is no such index
IndicesDelete(idx, name) ==
    IF idx[name].exists
    THEN [idx |-> [idx EXCEPT ![name] = NoIndex], exc |-> None]
    ELSE [idx |-> idx, exc |-> "NotFoundError"]

\* instance.indices.create(index, body): RequestError when the index exists
IndicesCreate(idx, name, body) ==
    IF idx[name].exists
    THEN [idx |-> idx, exc |-> "RequestError"]
    ELSE [idx |-> [idx EXCEPT ![name] =
                      [exists |-> TRUE,
                       mapping |-> IF "mappings" \in DOMAIN body THEN body["mappings"] ELSE "dynamic",
                       settings |-> body["settings"],
                       docs |-> EmptyDict]],
          exc |-> None]

\* does the remote service accept document d under the index's mapping
Accepts(ix, d) ==
    "object" \in DOMAIN d => (ix.mapping = "dynamic" \/ ix.mapping = d["object"])

\* the mapping after d was accepted (a dynamic mapping fixes the type it meets first)
Learn(ix, d) ==
    IF "object" \in DOMAIN d /\ ix.mapping = "dynamic" THEN d["object"] ELSE ix.mapping

\* an index the remote service creates by itself on the first write into it
AutoCreated == [exists |-> TRUE, mapping |-> "dynamic", settings |-> "auto", docs |-> EmptyDict]
\* an index of another application: it exists and holds a document
OldIndex == [AutoCreated EXCEPT !.docs = Put(EmptyDict, "z", [id |-> "a"])]
Target(idx, name) == IF idx[name].exists THEN idx[name] ELSE AutoCreated

(***************************************************************************)
(* create(): lines 75-84                                                   *)
(***************************************************************************)
CreateBody(h) ==
    LET withMapping == IF h.mapping # None THEN Put(EmptyDict, "mappings", h.mapping) ELSE EmptyDict
    IN  IF h.settings # None
        THEN Put(withMapping, "settings", h.settings)
        ELSE Put(withMapping, "settings", default_settings)

create(idx, h) == IndicesCreate(idx, h.index, CreateBody(h))

(***************************************************************************)
(* __init__: lines 46-63.  The result carries the remote state after the   *)
(* constructor, the exception that ended it (None when it returned) and    *)
(* the remote calls it issued, in order.                                   *)
(***************************************************************************)
\* line 59 and the end of the constructor
InitCreated(c, calls) == [idx |-> c.idx, exc |-> c.exc, calls |-> calls \o <<"exists", "create">>]

\* a constructor that creates the index without asking whether it exists
InitAfterDelete_AlwaysCreates(idx, h, calls) == InitCreated(create(idx, h), calls)

\* lines 58-59
InitAfterDelete(idx, h, calls) ==
    IF ~ IndicesExists(idx, h.index)
    THEN InitCreated(create(idx, h), calls)
    ELSE [idx |-> idx, exc |-> None, calls |-> calls \o <<"exists">>]

\* a constructor that returns after the delete request of replace=True
InitDeleted_SkipsCreate(d, h) == [idx |-> d.idx, exc |-> d.exc, calls |-> <<"delete">>]

\* lines 56-57: the delete request of replace=True; its exception ends the constructor
InitDeleted(d, h) ==
    IF d.exc # None
    THEN [idx |-> d.idx, exc |-> d.exc, calls |-> <<"delete">>]
    ELSE InitAfterDelete(d.idx, h, <<"delete">>)

\* a constructor that deletes the index whatever replace says
init_AlwaysDeletes(idx, h, replace) == InitDeleted(IndicesDelete(idx, h.index), h)

init(idx, h, replace) ==
    IF replace
    THEN InitDeleted(IndicesDelete(idx, h.index), h)
    ELSE InitAfterDelete(idx, h, <<>>)

(***************************************************************************)
(* Point operations of the remote service.                                 *)
(***************************************************************************)
\* a hit or a fetched record: the document and its metadata
Hit(id, d) == [k \in {"_id", "_source"} |-> IF k = "_id" THEN id ELSE d]
\* the same with the document left out (a query that sets "_source": false)
BareHit(id) == [k \in {"_id"} |-> id]

\* instance.get(index, doc_type, id): NotFoundError when the index or the
\* document does not exist
InstanceGet(idx, name, id) ==
    IF idx[name].exists /\ id \in DOMAIN idx[name].docs
    THEN [record |-> Hit(id, idx[name].docs[id]), exc |-> None]
    ELSE [record |-> EmptyDict, exc |-> "NotFoundError"]

\* json.dumps(document, ensure_ascii=False) and the service's parse of the body
json_dumps(d) == <<"json", d>>
ParseBody(body) == body[2]

\* instance.index(index, doc_type, body, id): the write lands on the given
\* identifier, or on a fresh one when the identifier is empty; RequestError
\* when the mapping rejects the document; a missing index is auto-created
InstanceIndex(idx, name, body, id, auto) ==
    LET ix == Target(idx, name)
        d == ParseBody(body)
        key == IF id = "" THEN AutoId(auto + 1) ELSE id
    IN  IF Accepts(ix, d)
        THEN [idx |-> [idx EXCEPT ![name] =
                          [ix EXCEPT !.docs = Put(ix.docs, key, d), !.mapping = Learn(ix, d)]],
              auto |-> IF id = "" THEN auto + 1 ELSE auto,
              exc |-> None]
        ELSE [idx |-> idx, auto |-> auto, exc |-> "RequestError"]

(***************************************************************************)
(* get: lines 153-166                                                      *)
(***************************************************************************)
\* a get that lets NotFoundError out
GetResult_Raises(r) ==
    IF r.exc = "NotFoundError"
    THEN [ret |-> "NotFoundError", value |-> EmptyDict]
    ELSE [ret |-> "document", value |-> r.record["_source"]]

\* lines 161-166 on the outcome r of the request
GetResult(r) ==
    IF r.exc = "NotFoundError"
    THEN [ret |-> None, value |-> EmptyDict]
    ELSE IF "_source" \in DOMAIN r.record
         THEN [ret |-> "document", value |-> r.record["_source"]]
         ELSE [ret |-> "document", value |-> r.record]

get(idx, h, identifier) == GetResult(InstanceGet(idx, h.index, identifier))

(***************************************************************************)
(* index_into: lines 168-176                                               *)
(***************************************************************************)
\* an index_into that lets RequestError out
IndexIntoResult_Raises(r) ==
    [idx |-> r.idx, auto |-> r.auto, ret |-> IF r.exc = "RequestError" THEN "RequestError" ELSE "True"]

\* lines 172-176 on the outcome r of the request
IndexIntoResult(r) ==
    [idx |-> r.idx, auto |-> r.auto, ret |-> IF r.exc = "RequestError" THEN "False" ELSE "True"]

\* an index_into that sends the document without its identifier
index_into_IgnoresId(idx, h, document, id, auto) ==
    IndexIntoResult(InstanceIndex(idx, h.index, json_dumps(document), "", auto))

index_into(idx, h, document, id, auto) ==
    IndexIntoResult(InstanceIndex(idx, h.index, json_dumps(document), id, auto))

(***************************************************************************)
(* Search and scroll of the remote service.  A search with a scroll        *)
(* keep-alive freezes the hits in some order; every response hands out     *)
(* the next `size` of them and a continuation token.                       *)
(***************************************************************************)
Min(a, b) == IF a < b THEN a ELSE b
Take(s, n) == SubSeq(s, 1, Min(n, Len(s)))
Drop(s, n) == SubSeq(s, Min(n, Len(s)) + 1, Len(s))

\* the orders in which the service may emit the documents of identifier set S
Orders(S) ==
    { o \in [1..Cardinality(S) -> S] : \A i, j \in 1..Cardinality(S) : o[i] = o[j] => i = j }

MatchAll == "match_all"
QueryNoSource == "match_all_no_source"

\* the hits of a query over index ix, emitted in order o
HitsOf(ix, o, query) ==
    [i \in 1..Len(o) |-> IF query = QueryNoSource THEN BareHit(o[i]) ELSE Hit(o[i], ix.docs[o[i]])]

\* line 148 / 150: what the generator yields for the hits of a response
Yield(hits, unpack) ==
    IF unpack
    THEN [i \in 1..Len(hits) |->
            IF "_source" \in DOMAIN hits[i] THEN hits[i]["_source"] ELSE hits[i]]
    ELSE hits

\* the generator before scroll() is called
NoGen ==
    [pc |-> "none", query |-> MatchAll, size |-> 0, unpack |-> TRUE, scroll_id |-> 0,
     cursor |-> <<>>, total |-> 0, issued |-> <<>>, presented |-> <<>>, out |-> <<>>]

\* the token the service issues with its next response: a new one each time
NextToken(g) == Len(g.issued) + 1

\* a loop that ends on the first response shorter than size
ScrollLoop_StopsOnShort(g, response) ==
    IF Len(response.hits) >= g.size
    THEN [g EXCEPT !.pc = "yielded",
                   !.scroll_id = response.scroll_id,
                   !.out = Append(g.out, Yield(response.hits, g.unpack))]
    ELSE [g EXCEPT !.pc = "done"]

\* a loop that keeps the scroll_id of the first response
ScrollLoop_FirstToken(g, response) ==
    IF Len(response.hits) > 0
    THEN [g EXCEPT !.pc = "yielded",
                   !.scroll_id = IF g.scroll_id = 0 THEN response.scroll_id ELSE g.scroll_id,
                   !.out = Append(g.out, Yield(response.hits, g.unpack))]
    ELSE [g EXCEPT !.pc = "done"]

\* lines 144-150: the loop test on a response, then the assignment of
\* scroll_id and the yield; the generator finishes on an empty response
ScrollLoop(g, response) ==
    IF Len(response.hits) > 0
    THEN [g EXCEPT !.pc = "yielded",
                   !.scroll_id = response.scroll_id,
                   !.out = Append(g.out, Yield(response.hits, g.unpack))]
    ELSE [g EXCEPT !.pc = "done"]

\* lines 142-143: the first next() issues the search
ScrollFirst(g, hits) ==
    LET response == [hits |-> Take(hits, g.size), scroll_id |-> NextToken(g)]
        g1 == [g EXCEPT !.cursor = Drop(hits, g.size),
                        !.total = Len(hits),
                        !.issued = Append(g.issued, response.scroll_id)]
    IN  ScrollLoop(g1, response)

\* a next() that sends the continue-scroll request twice and keeps the second response
ScrollResume_Twice(g) ==
    LET response == [hits |-> Take(Drop(g.cursor, g.size), g.size), scroll_id |-> NextToken(g) + 1]
        g1 == [g EXCEPT !.cursor = Drop(Drop(g.cursor, g.size), g.size),
                        !.presented = g.presented \o <<g.scroll_id, NextToken(g)>>,
                        !.issued = g.issued \o <<NextToken(g), NextToken(g) + 1>>]
    IN  ScrollLoop(g1, response)

\* line 151: a later next() continues the scroll with scroll_id
ScrollResume(g) ==
    LET response == [hits |-> Take(g.cursor, g.size), scroll_id |-> NextToken(g)]
        g1 == [g EXCEPT !.cursor = Drop(g.cursor, g.size),
                        !.presented = Append(g.presented, g.scroll_id),
                        !.issued = Append(g.issued, response.scroll_id)]
    IN  ScrollLoop(g1, response)

\* lines 143-151 run to the end: every batch a drained scroll yields
RECURSIVE ScrollAll(_, _, _)
ScrollAll(hits, size, unpack) ==
    IF Len(Take(hits, size)) > 0
    THEN <<Yield(Take(hits, size), unpack)>> \o ScrollAll(Drop(hits, size), size, unpack)
    ELSE <<>>

(***************************************************************************)
(* bulk: lines 200-243                                                     *)
(***************************************************************************)
OpTypes == {"index", "update", "delete"}
IdentifierKeys == {None, "", "id"}

\* a loop body that pops the identifier field whatever keep_id_key says
BulkHead_AlwaysPops(document, identifier_key, op_type, keep_id_key) ==
    LET base == Put(EmptyDict, "_op_type", op_type)
    IN  IF identifier_key # None /\ identifier_key # ""
        THEN LET withId == Put(base, "_id", document[identifier_key])
             IN  [object |-> IF withId["_id"] = "" THEN Pop(withId, "_id") ELSE withId,
                  document |-> Pop(document, identifier_key)]
        ELSE [object |-> base, document |-> document]

\* lines 216-223: the operation's _op_type and _id, and the document after
\* the identifier field was popped from it
BulkHead(document, identifier_key, op_type, keep_id_key) ==
    LET base == Put(EmptyDict, "_op_type", op_type)
    IN  IF identifier_key # None /\ identifier_key # ""
        THEN LET withId == Put(base, "_id", document[identifier_key])
                 doc == IF ~ keep_id_key THEN Pop(document, identifier_key) ELSE document
             IN  [object |-> IF withId["_id"] = "" THEN Pop(withId, "_id") ELSE withId,
                  document |-> doc]
        ELSE [object |-> base, document |-> document]

\* a payload that sets doc_as_upsert on every update
BulkPayload_AlwaysUpserts(bulk_object, document, op_type, upsert) ==
    IF op_type = "index"
    THEN Put(bulk_object, "_source", document)
    ELSE IF op_type = "update"
         THEN Put(Put(bulk_object, "doc", document), "doc_as_upsert", TRUE)
         ELSE bulk_object

\* lines 224-229: the payload of the operation
BulkPayload(bulk_object, document, op_type, upsert) ==
    IF op_type = "index"
    THEN Put(bulk_object, "_source", document)
    ELSE IF op_type = "update"
         THEN IF upsert
              THEN Put(Put(bulk_object, "doc", document), "doc_as_upsert", TRUE)
              ELSE Put(bulk_object, "doc", document)
         ELSE bulk_object

\* lines 216-230: one pass of the loop body
BulkBody(h, op_type, upsert) ==
    [object |-> BulkPayload(h.object, h.document, op_type, upsert), document |-> h.document]

BulkObject(document, identifier_key, op_type, upsert, keep_id_key) ==
    BulkBody(BulkHead(document, identifier_key, op_type, keep_id_key), op_type, upsert)

\* document[identifier_key] raises KeyError
RaisesKeyError(document, identifier_key) ==
    identifier_key # None /\ identifier_key # "" /\ identifier_key \notin DOMAIN document

\* a loop that appends no operation for a document without identifier
BulkAppend_SkipsNoId(b, rest) ==
    IF "_id" \notin DOMAIN b.object
    THEN [objects |-> rest.objects, data |-> <<b.document>> \o rest.data, exc |-> rest.exc]
    ELSE [objects |-> <<b.object>> \o rest.objects, data |-> <<b.document>> \o rest.data,
          exc |-> rest.exc]

\* line 230: bulk_objects.append(bulk_object), ahead of the rest of the loop
BulkAppend(b, rest) ==
    [objects |-> <<b.object>> \o rest.objects, data |-> <<b.document>> \o rest.data,
     exc |-> rest.exc]

\* lines 214-231: the loop over data; it stops at the first KeyError, with
\* the documents before it already changed
RECURSIVE BulkObjects(_, _, _, _, _)
BulkObjects(data, identifier_key, op_type, upsert, keep_id_key) ==
    IF data = <<>>
    THEN [objects |-> <<>>, data |-> <<>>, exc |-> None]
    ELSE IF RaisesKeyError(Head(data), identifier_key)
         THEN [objects |-> <<>>, data |-> data, exc |-> "KeyError"]
         ELSE BulkAppend(BulkObject(Head(data), identifier_key, op_type, upsert, keep_id_key),
                         BulkObjects(Tail(data), identifier_key, op_type, upsert, keep_id_key))

(***************************************************************************)
(* elasticsearch.helpers.bulk(instance, actions, index, doc_type,          *)
(* raise_on_error=False) as line 233 calls it: the service applies the     *)
(* operations in order; the result is the number that succeeded and the    *)
(* list of those that failed.                                              *)
(***************************************************************************)
\* the whole request is refused when an update or delete names no _id
Refused(objects) ==
    \E i \in 1..Len(objects) :
        objects[i]["_op_type"] \in {"update", "delete"} /\ "_id" \notin DOMAIN objects[i]

\* the outcomes of one operation on index state ix
Failed(ix, exists, auto) == [ix |-> ix, exists |-> exists, auto |-> auto, ok |-> FALSE]
Written(ix, auto, o, d) ==
    [ix |-> [ix EXCEPT !.docs = Put(ix.docs, IF "_id" \in DOMAIN o THEN o["_id"] ELSE AutoId(auto + 1), d),
                       !.mapping = Learn(ix, d)],
     exists |-> TRUE,
     auto |-> IF "_id" \in DOMAIN o THEN auto ELSE auto + 1,
     ok |-> TRUE]
Stored(ix, exists, o) == exists /\ "_id" \in DOMAIN o /\ o["_id"] \in DOMAIN ix.docs

\* one operation against index state ix (auto: identifiers assigned so far):
\* index writes the document unless the mapping rejects it; update merges
\* into the stored document, or creates it under doc_as_upsert, and fails on
\* a missing document; delete fails on a missing document
Apply(ix, exists, auto, o) ==
    CASE o["_op_type"] = "index" ->
            IF Accepts(ix, o["_source"]) THEN Written(ix, auto, o, o["_source"])
            ELSE Failed(ix, exists, auto)
      [] o["_op_type"] = "update" ->
            IF Stored(ix, exists, o)
            THEN IF Accepts(ix, o["doc"])
                 THEN Written(ix, auto, o, Merge(ix.docs[o["_id"]], o["doc"]))
                 ELSE Failed(ix, exists, auto)
            ELSE IF "doc_as_upsert" \in DOMAIN o /\ Accepts(ix, o["doc"])
                 THEN Written(ix, auto, o, o["doc"])
                 ELSE Failed(ix, exists, auto)
      [] OTHER ->
            IF Stored(ix, exists, o)
            THEN [ix |-> [ix EXCEPT !.docs = Pop(ix.docs, o["_id"])],
                  exists |-> TRUE, auto |-> auto, ok |-> TRUE]
            ELSE Failed(ix, exists, auto)

\* the count of successes and the list of failed operations, one more counted
Tally(ok, i, rest) ==
    [rest EXCEPT !.success = rest.success + (IF ok THEN 1 ELSE 0),
                 !.errors = (IF ok THEN <<>> ELSE <<i>>) \o rest.errors]

RECURSIVE ApplyAll(_, _, _, _, _)
ApplyNext(r, objects, i) == Tally(r.ok, i, ApplyAll(r.ix, r.exists, r.auto, objects, i + 1))
ApplyAll(ix, exists, auto, objects, i) ==
    IF i > Len(objects)
    THEN [ix |-> ix, exists |-> exists, auto |-> auto, success |-> 0, errors |-> <<>>]
    ELSE ApplyNext(Apply(ix, exists, auto, objects[i]), objects, i)

HelpersResult(idx, name, r) ==
    [idx |-> IF r.exists THEN [idx EXCEPT ![name] = r.ix] ELSE idx,
     auto |-> r.auto,
     errors |-> <<r.success, r.errors>>,
     exc |-> None]

HelpersBulk(idx, name, auto, objects) ==
    IF Refused(objects)
    THEN [idx |-> idx, auto |-> auto, errors |-> <<0, <<>>>>, exc |-> "RequestError"]
    ELSE HelpersResult(idx, name, ApplyAll(Target(idx, name), idx[name].exists, auto, objects, 1))

\* a return value that is True as soon as one operation succeeded
BulkReturn_AnySuccess(errors, bulk_objects) ==
    IF errors[1] = 0 /\ Len(bulk_objects) # 0 THEN "False" ELSE "True"

\* lines 235-243: the return value
BulkReturn(errors, bulk_objects) ==
    IF errors[1] - Len(bulk_objects) # 0 THEN "False" ELSE "True"

\* lines 233-243 on the outcome r of the request for the operations b
BulkResult(b, r) ==
    [idx |-> r.idx, auto |-> r.auto, objects |-> b.objects, data |-> b.data,
     errors |-> r.errors, sent |-> TRUE,
     ret |-> IF r.exc # None THEN r.exc ELSE BulkReturn(r.errors, b.objects)]

\* a bulk that sends what it has built before it lets the KeyError out
BulkSend_SendsPartial(idx, h, auto, b) ==
    IF b.exc # None
    THEN [BulkResult(b, HelpersBulk(idx, h.index, auto, b.objects)) EXCEPT !.ret = b.exc]
    ELSE BulkResult(b, HelpersBulk(idx, h.index, auto, b.objects))

\* line 233: the request, which a KeyError of the loop never reaches
BulkSend(idx, h, auto, b) ==
    IF b.exc # None
    THEN [idx |-> idx, auto |-> auto, objects |-> b.objects, data |-> b.data,
          errors |-> <<0, <<>>>>, sent |-> FALSE, ret |-> b.exc]
    ELSE BulkResult(b, HelpersBulk(idx, h.index, auto, b.objects))

bulk(idx, h, auto, data, identifier_key, op_type, upsert, keep_id_key) ==
    BulkSend(idx, h, auto, BulkObjects(data, identifier_key, op_type, upsert, keep_id_key))

(***************************************************************************)
(* reindex: lines 245-265                                                  *)
(***************************************************************************)
\* lines 255-261: the keyword arguments of the new handle's constructor
ReindexHandle(h, new_index_name, kwargs) ==
    [index |-> new_index_name,
     mapping |-> IF "mapping" \in DOMAIN kwargs THEN kwargs["mapping"] ELSE h.mapping,
     settings |-> IF "settings" \in DOMAIN kwargs THEN kwargs["settings"] ELSE None]
ReindexReplace(kwargs) == "replace" \in DOMAIN kwargs /\ kwargs["replace"]

\* lines 263-264: every batch of the scroll goes to the new handle's bulk;
\* an exception of bulk ends the loop.  submitted: the calls of bulk made
RECURSIVE ReindexLoop(_, _, _, _, _)
BulkCall(data, identifier_key) == [data |-> data, identifier_key |-> identifier_key]
ReindexPrepend(ret, call, rest) ==
    [rest EXCEPT !.rets = <<ret>> \o rest.rets, !.submitted = <<call>> \o rest.submitted]

\* a loop that stops at the first batch whose bulk returns False
ReindexNext_StopsOnFalse(b, newh, batches, identifier_key) ==
    IF b.ret # "True"
    THEN [idx |-> b.idx, auto |-> b.auto, rets |-> <<b.ret>>,
          submitted |-> <<BulkCall(Head(batches), identifier_key)>>,
          exc |-> IF b.ret = "False" THEN None ELSE b.ret]
    ELSE ReindexPrepend(b.ret, BulkCall(Head(batches), identifier_key),
                        ReindexLoop(b.idx, b.auto, newh, Tail(batches), identifier_key))

ReindexNext(b, newh, batches, identifier_key) ==
    IF b.ret \notin {"True", "False"}
    THEN [idx |-> b.idx, auto |-> b.auto, rets |-> <<b.ret>>,
          submitted |-> <<BulkCall(Head(batches), identifier_key)>>, exc |-> b.ret]
    ELSE ReindexPrepend(b.ret, BulkCall(Head(batches), identifier_key),
                        ReindexLoop(b.idx, b.auto, newh, Tail(batches), identifier_key))
ReindexLoop(idx, auto, newh, batches, identifier_key) ==
    IF batches = <<>>
    THEN [idx |-> idx, auto |-> auto, rets |-> <<>>, submitted |-> <<>>, exc |-> None]
    ELSE ReindexNext(bulk(idx, newh, auto, Head(batches), identifier_key, "index", FALSE, FALSE),
                     newh, batches, identifier_key)

\* line 265: the new handle is returned unless an exception ended the loop
ReindexResult(newh, batches, r) ==
    [idx |-> r.idx, auto |-> r.auto, handle |-> IF r.exc = None THEN newh ELSE NoHandle,
     batches |-> batches, rets |-> r.rets, submitted |-> r.submitted, exc |-> r.exc]

\* a reindex that ended before its loop
ReindexRaised(idx, auto, exc) ==
    [idx |-> idx, auto |-> auto, handle |-> NoHandle, batches |-> <<>>, rets |-> <<>>,
     submitted |-> <<>>, exc |-> exc]

\* lines 263-265 over the batches the scroll of the source yields
ReindexDrain(idx, auto, newh, identifier_key, batches) ==
    ReindexResult(newh, batches, ReindexLoop(idx, auto, newh, batches, identifier_key))

\* lines 261-264 on the outcome c of the new handle's constructor;
\* o: the order in which the scroll of the source emits its documents;
\* size: the batch size of that scroll
ReindexCopy(c, h, auto, newh, identifier_key, o, size) ==
    IF c.exc # None
    THEN ReindexRaised(c.idx, auto, c.exc)
    ELSE IF ~ c.idx[h.index].exists
         THEN ReindexRaised(c.idx, auto, "NotFoundError")
         ELSE ReindexDrain(c.idx, auto, newh, identifier_key,
                           ScrollAll(HitsOf(c.idx[h.index], o, MatchAll), size, TRUE))

ReindexInto(idx, h, auto, newh, replace, identifier_key, o, size) ==
    ReindexCopy(init(idx, newh, replace), h, auto, newh, identifier_key, o, size)

\* reindex as it runs when the scroll of line 263 yields batches of `size`
ReindexSized(idx, h, auto, new_index_name, identifier_key, kwargs, o, size) ==
    ReindexInto(idx, h, auto, ReindexHandle(h, new_index_name, kwargs), ReindexReplace(kwargs),
                identifier_key, o, size)

reindex(idx, h, auto, new_index_name, identifier_key, kwargs, o) ==
    ReindexSized(idx, h, auto, new_index_name, identifier_key, kwargs, o, ReindexScrollSize)

(***************************************************************************)
(* dump: lines 267-292                                                     *)
(***************************************************************************)
\* lines 275-277: export.extend(results) for every batch
RECURSIVE Extend(_)
Extend(batches) == IF batches = <<>> THEN <<>> ELSE Head(batches) \o Extend(Tail(batches))

\* lines 279-288: a path and a file name are sequences of characters
EndsWith(str, suffix) ==
    Len(str) >= Len(suffix) /\ SubSeq(str, Len(str) - Len(suffix) + 1, Len(str)) = suffix
Slash == <<"/">>
DotJson == <<".", "j", "s", "o", "n">>
StorePath(path) == IF ~ EndsWith(path, Slash) THEN path \o Slash ELSE path
StoreName(f) == IF ~ EndsWith(f, DotJson) THEN f \o DotJson ELSE f
Store(h, path, file_name) ==
    StorePath(path) \o StoreName(IF file_name = <<>> THEN <<h.index>> ELSE file_name)

NoFile == [store |-> <<>>, content |-> json_dumps(<<>>)]

\* a dump that scrolls with unpack=False
dump_Raw(idx, h, path, file_name, o) ==
    IF ~ idx[h.index].exists
    THEN [file |-> NoFile, exc |-> "NotFoundError"]
    ELSE [file |-> [store |-> Store(h, path, file_name),
                    content |-> json_dumps(Extend(ScrollAll(HitsOf(idx[h.index], o, MatchAll),
                                                            DefaultScrollSize, FALSE)))],
          exc |-> None]

dump(idx, h, path, file_name, o) ==
    IF ~ idx[h.index].exists
    THEN [file |-> NoFile, exc |-> "NotFoundError"]
    ELSE [file |-> [store |-> Store(h, path, file_name),
                    content |-> json_dumps(Extend(ScrollAll(HitsOf(idx[h.index], o, MatchAll),
                                                            DefaultScrollSize, TRUE)))],
          exc |-> None]

(***************************************************************************)
(* The caller's operations on the handle.  Every operation leaves in       *)
(* `last` its name, its outcome (the return value, or the exception it     *)
(* raised) and what it was called with.                                    *)
(***************************************************************************)
Mappings == {None, "s", "o"}
Settings == {None, "custom"}
IndexIds == {"a", ""}
GetIds == {"a", "b", "g1"}

Done(op, ret, value) == [op |-> op, ret |-> ret, value |-> value]
Idle == last.op = "none"

\* self = ElasticIndex("test", doc_type, mapping=m, settings=s, replace=r)
Constructed(h, r, c) ==
    /\ indices' = c.idx
    /\ self' = IF c.exc = None THEN h ELSE self
    /\ last' = Done("init", c.exc,
                    [replace |-> r, existed |-> indices[h.index].exists, calls |-> c.calls])
    /\ UNCHANGED <<new_index, nextAuto, gen, file>>

Construct ==
    \E m \in Mappings, s \in Settings, r \in BOOLEAN :
        Constructed([index |-> "test", mapping |-> m, settings |-> s], r,
                    init(indices, [index |-> "test", mapping |-> m, settings |-> s], r))

\* self.create()
Created(c) ==
    /\ indices' = c.idx
    /\ last' = Done("create", c.exc, [existed |-> indices[self.index].exists])
    /\ UNCHANGED <<self, new_index, nextAuto, gen, file>>

Create ==
    /\ self # NoHandle
    /\ Created(create(indices, self))

\* self.delete(): lines 86-91
Deleted(d) ==
    /\ indices' = d.idx
    /\ last' = Done("delete", d.exc, [existed |-> indices[self.index].exists])
    /\ UNCHANGED <<self, new_index, nextAuto, gen, file>>

Delete ==
    /\ self # NoHandle
    /\ Deleted(IndicesDelete(indices, self.index))

\* self.get(identifier)
Got(identifier, r) ==
    /\ last' = Done("get", r.ret, [id |-> identifier, doc |-> r.value])
    /\ UNCHANGED <<indices, self, new_index, nextAuto, gen, file>>

Get ==
    /\ self # NoHandle
    /\ \E identifier \in GetIds : Got(identifier, get(indices, self, identifier))

\* self.index_into(document, id)
Indexed(document, id, r) ==
    /\ indices' = r.idx
    /\ nextAuto' = r.auto
    /\ last' = Done("index_into", r.ret, [id |-> id, doc |-> document])
    /\ UNCHANGED <<self, new_index, gen, file>>

IndexInto ==
    /\ self # NoHandle
    /\ \E document \in PointDocs, id \in IndexIds :
          /\ id = "" => nextAuto < MaxAuto
          /\ Indexed(document, id, index_into(indices, self, document, id, nextAuto))

\* gen = self.scroll(query, size=size, unpack=unpack): nothing runs yet
Scroll ==
    /\ self # NoHandle
    /\ Idle
    /\ \E query \in {MatchAll, QueryNoSource}, size \in (1..MaxSize) \cup {DefaultScrollSize},
          unpack \in BOOLEAN :
          gen' = [NoGen EXCEPT !.pc = "created", !.query = query, !.size = size, !.unpack = unpack]
    /\ last' = Done("scroll", None, EmptyDict)
    /\ UNCHANGED <<indices, self, new_index, nextAuto, file>>

\* next(gen), the first time: the search request
ScrollStart ==
    /\ gen.pc = "created"
    /\ IF indices[self.index].exists
       THEN \E o \in Orders(DOMAIN indices[self.index].docs) :
               gen' = ScrollFirst(gen, HitsOf(indices[self.index], o, gen.query))
       ELSE gen' = [gen EXCEPT !.pc = "raised"]
    /\ last' = Done("next", IF indices[self.index].exists THEN None ELSE "NotFoundError", EmptyDict)
    /\ UNCHANGED <<indices, self, new_index, nextAuto, file>>

\* next(gen), after a batch was yielded: the continue-scroll request
ScrollNext ==
    /\ gen.pc = "yielded"
    /\ gen' = ScrollResume(gen)
    /\ last' = Done("next", None, EmptyDict)
    /\ UNCHANGED <<indices, self, new_index, nextAuto, file>>

\* the lists of documents a caller passes to bulk
RECURSIVE Lists(_)
Lists(n) ==
    IF n = 0 THEN {<<>>}
    ELSE Lists(n - 1) \cup { Append(l, d) : l \in { x \in Lists(n - 1) : Len(x) = n - 1 }, d \in InputDocs }

\* self.bulk(data, identifier_key, op_type, upsert, keep_id_key)
Bulked(data, identifier_key, op_type, upsert, keep_id_key, r) ==
    /\ indices' = r.idx
    /\ nextAuto' = r.auto
    /\ last' = Done("bulk", r.ret,
                    [data |-> data, identifier_key |-> identifier_key, op_type |-> op_type,
                     upsert |-> upsert, keep_id_key |-> keep_id_key, objects |-> r.objects,
                     after |-> r.data, errors |-> r.errors, sent |-> r.sent,
                     before |-> indices])
    /\ UNCHANGED <<self, new_index, gen, file>>

Bulk ==
    /\ self # NoHandle
    /\ Idle
    /\ \E data \in Lists(MaxData), identifier_key \in IdentifierKeys, op_type \in OpTypes,
          upsert \in BOOLEAN, keep_id_key \in BOOLEAN :
          Bulked(data, identifier_key, op_type, upsert, keep_id_key,
                 bulk(indices, self, nextAuto, data, identifier_key, op_type, upsert, keep_id_key))

ReindexKwargs == { EmptyDict, Put(EmptyDict, "replace", TRUE), Put(EmptyDict, "mapping", "o") }

\* new_index = self.reindex(new_index_name, identifier_key, **kwargs)
Reindexed(new_index_name, identifier_key, kwargs, r) ==
    /\ indices' = r.idx
    /\ nextAuto' = r.auto
    /\ new_index' = r.handle
    /\ last' = Done("reindex", r.exc,
                    [new_index_name |-> new_index_name, identifier_key |-> identifier_key,
                     kwargs |-> kwargs, batches |-> r.batches, rets |-> r.rets,
                     submitted |-> r.submitted, before |-> indices])
    /\ UNCHANGED <<self, gen, file>>

Reindex ==
    /\ self # NoHandle
    /\ Idle
    /\ \E new_index_name \in {"new", "old"}, identifier_key \in IdentifierKeys,
          kwargs \in ReindexKwargs, o \in Orders(DOMAIN indices[self.index].docs) :
          Reindexed(new_index_name, identifier_key, kwargs,
                    reindex(indices, self, nextAuto, new_index_name, identifier_key, kwargs, o))

\* the same call on a source that spans several batches of the scroll: the
\* batch size of line 263 scaled down to the sizes of the indexes drawn here
ReindexBatches ==
    /\ self # NoHandle
    /\ Idle
    /\ \E new_index_name \in {"new", "old"}, identifier_key \in IdentifierKeys,
          kwargs \in ReindexKwargs, o \in Orders(DOMAIN indices[self.index].docs),
          size \in 1..MaxSize :
          Reindexed(new_index_name, identifier_key, kwargs,
                    ReindexSized(indices, self, nextAuto, new_index_name, identifier_key, kwargs,
                                 o, size))

Paths == { <<"o">>, <<"o", "/">> }
FileNames == { <<>>, <<"d">>, <<"d">> \o DotJson }

\* self.dump(path, file_name)
Dumped(path, file_name, r) ==
    /\ file' = IF r.exc = None THEN r.file ELSE file
    /\ last' = Done("dump", r.exc, [path |-> path, file_name |-> file_name, before |-> indices])
    /\ UNCHANGED <<indices, self, new_index, nextAuto, gen>>

Dump ==
    /\ self # NoHandle
    /\ Idle
    /\ \E path \in Paths, file_name \in FileNames, o \in Orders(DOMAIN indices[self.index].docs) :
          Dumped(path, file_name, dump(indices, self, path, file_name, o))

(***************************************************************************)
(* Spec: the lifecycle and the point operations, from a remote service     *)
(* where the index exists or not, before any handle was constructed.       *)
(***************************************************************************)
Init ==
    /\ \E t \in {NoIndex, AutoCreated} :
          indices = [x \in Names |-> IF x = "test" THEN t ELSE IF x = "old" THEN OldIndex ELSE NoIndex]
    /\ self = NoHandle
    /\ new_index = NoHandle
    /\ nextAuto = 0
    /\ gen = NoGen
    /\ file = NoFile
    /\ last = Done("none", None, EmptyDict)

Next ==
    \/ Construct
    \/ Create
    \/ Delete
    \/ Get
    \/ IndexInto

Spec == Init /\ [][Next]_vars

(***************************************************************************)
(* SpecBatch: one scroll, bulk, reindex or dump on a handle whose index    *)
(* holds any documents its mapping allows.                                 *)
(***************************************************************************)
StoredIds == <<"a", "b", "c", "d">>

\* the documents an index holds to begin with: up to MaxStored of them
Contents ==
    { [k \in { StoredIds[i] : i \in 1..Len(f) } |-> f[CHOOSE i \in 1..Len(f) : StoredIds[i] = k]] :
        f \in UNION { [1..m -> InputDocs] : m \in 0..MaxStored } }
Populated ==
    { [exists |-> TRUE, mapping |-> m, settings |-> default_settings, docs |-> f] :
        m \in {"dynamic", "s", "o"}, f \in Contents }
\* the mapping of an index fixes the type of "object" as soon as a document has one
Consistent(ix) ==
    /\ \A k \in DOMAIN ix.docs : Accepts(ix, ix.docs[k])
    /\ ix.mapping = "dynamic" => \A k \in DOMAIN ix.docs : "object" \notin DOMAIN ix.docs[k]
    /\ ix.mapping # "dynamic" => \E k \in DOMAIN ix.docs : "object" \in DOMAIN ix.docs[k]

InitBatch ==
    /\ \E t \in {NoIndex} \cup { ix \in Populated : Consistent(ix) } :
          /\ indices = [x \in Names |-> IF x = "test" THEN t ELSE IF x = "old" THEN OldIndex ELSE NoIndex]
          /\ self = [index |-> "test",
                     mapping |-> IF t.mapping = "dynamic" THEN None ELSE t.mapping,
                     settings |-> None]
    /\ new_index = NoHandle
    /\ nextAuto = 0
    /\ gen = NoGen
    /\ file = NoFile
    /\ last = Done("none", None, EmptyDict)

NextBatch ==
    \/ Scroll
    \/ ScrollStart
    \/ ScrollNext
    \/ Bulk
    \/ Reindex
    \/ Dump

SpecBatch == InitBatch /\ [][NextBatch]_vars

(***************************************************************************)
(* SpecReindex: one reindex of a source that the scroll hands over in      *)
(* several batches.                                                        *)
(***************************************************************************)
NextReindex == ReindexBatches

SpecReindex == InitBatch /\ [][NextReindex]_vars

(***************************************************************************)
(* Properties.                                                             *)
(***************************************************************************)
Ceil(n, d) == (n + d - 1) \div d
RECURSIVE Total(_)
Total(batches) == IF batches = <<>> THEN 0 ELSE Len(Head(batches)) + Total(Tail(batches))
Count(seq, x) == Cardinality({ i \in 1..Len(seq) : seq[i] = x })
Holding(f, x) == Cardinality({ k \in DOMAIN f : f[k] = x })
Size(ix) == Cardinality(DOMAIN ix.docs)

\* C1: whenever the constructor has returned (whether or not replace was
\* set, whether or not the index existed), the index exists on the
\* remote service.
C1_ExistsAfterConstruction ==
    (last.op = "init" /\ last.ret = None) => indices["test"].exists

C1_Witness ==
    /\ last.op = "init" /\ last.ret = None
    /\ last.value.replace /\ last.value.existed
    /\ indices["test"].exists

\* C2: a drained scroll over an index of N documents with batch size S has
\* yielded ceil(N/S) batches, each non-empty and of at most S hits, N hits
\* in all (none for N = 0); before that it has never yielded more, and once
\* ceil(N/S) batches are out the next response is empty, which ends it.
C2_ScrollBatches ==
    gen.pc \in {"yielded", "done"} =>
        LET N == Size(indices["test"])
        IN  /\ gen.total = N
            /\ \A i \in 1..Len(gen.out) : Len(gen.out[i]) > 0 /\ Len(gen.out[i]) <= gen.size
            /\ Len(gen.out) <= Ceil(N, gen.size)
            /\ Len(gen.out) = Ceil(N, gen.size) => gen.cursor = <<>>
            /\ gen.pc = "done" => Len(gen.out) = Ceil(N, gen.size) /\ Total(gen.out) = N

C2_Witness ==
    /\ gen.pc = "done"
    /\ Size(indices["test"]) = 2 /\ gen.size = 1 /\ Len(gen.out) = 2

C4_IndexIntoSoftFailure ==
    [][ last'.op = "index_into" =>
          /\ last'.ret = IF Accepts(Target(indices, self.index), last'.value.doc)
                         THEN "True" ELSE "False"
          /\ self' = self
          /\ last'.ret = "False" => indices' = indices /\ nextAuto' = nextAuto ]_vars

C4_Witness ==
    /\ last.op = "index_into" /\ last.ret = "False"
    /\ Size(indices["test"]) > 0

\* C5: get of an identifier the index does not hold returns None and
\* raises nothing, whether the index holds other documents, none, or does
\* not exist; get changes no remote state.
C5_GetAbsent ==
    [][ last'.op = "get" =>
          /\ indices' = indices
          /\ last'.ret \in {None, "document"}
          /\ ~ (indices[self.index].exists /\ last'.value.id \in DOMAIN indices[self.index].docs)
                => last'.ret = None ]_vars

C5_Witness ==
    /\ last.op = "get" /\ last.ret = None
    /\ indices["test"].exists /\ Size(indices["test"]) > 0
    /\ last.value.id \notin DOMAIN indices["test"].docs

\* C6: constructing with replace=True while no index of that name exists
\* succeeds (the not-found outcome of the deletion is ignored) and ends
\* with a freshly created index.
C6_ReplaceIgnoresNotFound ==
    (last.op = "init" /\ last.value.replace /\ ~ last.value.existed) =>
        /\ last.ret = None
        /\ indices["test"].exists /\ Size(indices["test"]) = 0

\* C7: after a reindex from a populated source into a new index, with no
\* write failure, the target holds as many documents as the source.
C7_ReindexCount ==
    (/\ last.op = "reindex" /\ last.ret = None
     /\ last.value.new_index_name = "new"
     /\ Size(indices["test"]) > 0
     /\ \A i \in 1..Len(last.value.rets) : last.value.rets[i] = "True")
    => Size(indices["new"]) = Size(indices["test"])

\* C8: the i-th continue-scroll request of a sequence presents the token
\* of the i-th response (the search, then the continue-scroll before it),
\* which is the newest one issued when the request is made.
C8_LatestToken ==
    /\ Len(gen.presented) <= Len(gen.issued)
    /\ \A i \in 1..Len(gen.presented) : gen.presented[i] = gen.issued[i]

C8_Witness ==
    /\ gen.pc = "done"
    /\ Len(gen.presented) = 2 /\ gen.presented[2] = gen.issued[2]

\* C9: bulk builds one operation per document.  Under a non-empty
\* identifier_key its _id is the document's value of that field, left out
\* when that value is the empty string, and the payload is the document
\* without the field unless keep_id_key; under identifier_key None or ""
\* there is no _id and the payload is the document as passed.
C9_Payload(o, op_type, d) ==
    /\ op_type = "index" => o["_source"] = d
    /\ op_type = "update" => o["doc"] = d

C9_BulkOperations ==
    (last.op = "bulk" /\ last.ret # "KeyError") =>
        LET v == last.value
            keyed == v.identifier_key # None /\ v.identifier_key # ""
        IN  /\ Len(v.objects) = Len(v.data)
            /\ \A i \in 1..Len(v.data) :
                 LET d == v.data[i]
                     o == v.objects[i]
                 IN  IF keyed
                     THEN /\ IF d[v.identifier_key] = ""
                             THEN "_id" \notin DOMAIN o
                             ELSE "_id" \in DOMAIN o /\ o["_id"] = d[v.identifier_key]
                          /\ C9_Payload(o, v.op_type,
                                        IF v.keep_id_key THEN d ELSE Pop(d, v.identifier_key))
                     ELSE /\ "_id" \notin DOMAIN o
                          /\ C9_Payload(o, v.op_type, d)

C9_Witness ==
    /\ last.op = "bulk" /\ last.value.identifier_key = "id" /\ last.value.keep_id_key
    /\ last.value.op_type = "index"
    /\ Len(last.value.data) = 2
    /\ last.value.data[1]["id"] = "" /\ last.value.data[2]["id"] = "a"

\* C10: the file dump writes is one JSON array with one element per
\* document of the index, the unpacked documents in some order, and dump
\* leaves the index as it was.
C10_DumpContent ==
    (last.op = "dump" /\ last.ret = None) =>
        LET export == ParseBody(file.content)
            docs == indices["test"].docs
        IN  /\ Len(export) = Size(indices["test"])
            /\ \A k \in DOMAIN docs : Count(export, docs[k]) = Holding(docs, docs[k])
            /\ \A i \in 1..Len(export) : \E k \in DOMAIN docs : export[i] = docs[k]
            /\ indices = last.value.before

C10_Witness ==
    /\ last.op = "dump" /\ last.ret = None
    /\ Size(indices["test"]) = 2
    /\ Len(ParseBody(file.content)) = 2

\* C11: when index_into(document, id) with a non-empty id was accepted, a
\* get(id) on the resulting state returns a document equal to the one
\* written, also when the identifier held another document before; a get
\* of a stored identifier returns the stored document; and a get, a
\* rejected index_into or a write to another identifier leaves what get
\* returns for the identifier as it was.
C11_ReadYourWrite ==
    [][ /\ (last'.op = "index_into" /\ last'.ret = "True" /\ last'.value.id # "") =>
              get(indices', self', last'.value.id)
                  = [ret |-> "document", value |-> last'.value.doc]
        /\ (last'.op = "get" /\ indices[self.index].exists
                             /\ last'.value.id \in DOMAIN indices[self.index].docs) =>
              /\ last'.ret = "document"
              /\ last'.value.doc = indices[self.index].docs[last'.value.id]
        /\ last'.op \in {"get", "index_into"} =>
              \A x \in GetIds :
                  (last'.op = "index_into" /\ last'.ret = "True"
                      /\ x = (IF last'.value.id = "" THEN AutoId(nextAuto') ELSE last'.value.id))
                  \/ get(indices', self', x) = get(indices, self, x) ]_vars

C11_Witness ==
    /\ last.op = "get" /\ last.ret = "document"
    /\ last.value.id = "a" /\ last.value.doc = [id |-> "a"]
    /\ self.mapping = None /\ indices["test"].mapping = "s"
    /\ DOMAIN indices["test"].docs = {"a"} /\ nextAuto = 0

\* C12: a constructor called with replace false while the index exists
\* issues the existence check and nothing else, returns, and leaves the
\* index (mapping, settings, documents) as it was, whatever mapping and
\* settings the caller passed.
C12_ConstructKeepsExisting ==
    [][ (last'.op = "init" /\ ~ last'.value.replace /\ last'.value.existed) =>
          /\ last'.value.calls = <<"exists">>
          /\ last'.ret = None
          /\ indices' = indices ]_vars

C12_Witness ==
    /\ last.op = "init" /\ ~ last.value.replace /\ last.value.existed
    /\ self.mapping = "o" /\ self.settings = "custom"
    /\ indices["test"].mapping = "s" /\ Size(indices["test"]) > 0

\* C13: every operation bulk has built carries the payload of its op type:
\* an index operation the document as _source and neither doc nor
\* doc_as_upsert; an update the document as doc, no _source, and
\* doc_as_upsert (true) exactly when upsert is true; a delete nothing
\* besides its _op_type and _id.
C13_PayloadByOpType ==
    last.op = "bulk" =>
        LET v == last.value
        IN  \A i \in 1..Len(v.objects) :
              LET o == v.objects[i]
                  d == v.after[i]
              IN  /\ o["_op_type"] = v.op_type
                  /\ v.op_type = "index" =>
                        /\ "_source" \in DOMAIN o /\ o["_source"] = d
                        /\ DOMAIN o \cap {"doc", "doc_as_upsert"} = {}
                  /\ v.op_type = "update" =>
                        /\ "doc" \in DOMAIN o /\ o["doc"] = d
                        /\ "_source" \notin DOMAIN o
                        /\ "doc_as_upsert" \in DOMAIN o <=> v.upsert
                        /\ v.upsert => o["doc_as_upsert"] = TRUE
                  /\ v.op_type = "delete" => DOMAIN o \subseteq {"_op_type", "_id"}

C13_Witness ==
    /\ last.op = "bulk" /\ last.value.op_type = "update" /\ last.value.upsert
    /\ Len(last.value.objects) = 2
    /\ last.value.objects[2]["doc_as_upsert"] = TRUE

\* C14: after a reindex under a non-empty identifier_key into a new index,
\* with no write failure, every document the target holds is equal to a
\* document of the source: the one whose identifier field names it.
C14_ReindexFullCopy ==
    (/\ last.op = "reindex" /\ last.ret = None
     /\ last.value.new_index_name = "new"
     /\ last.value.identifier_key = "id"
     /\ \A i \in 1..Len(last.value.rets) : last.value.rets[i] = "True")
    => \A k \in DOMAIN indices["new"].docs :
          \E j \in DOMAIN indices["test"].docs :
              /\ indices["test"].docs[j]["id"] \in {k, ""}
              /\ indices["new"].docs[k] = indices["test"].docs[j]

\* C15 (as claimed): every constructor call issues one or two remote calls.
C15_OneOrTwoCalls ==
    last.op = "init" => Len(last.value.calls) \in {1, 2}

\* C15: a constructor call issues between one and three remote calls: the
\* existence check alone when replace is false and the index exists; the
\* existence check and a create when replace is false and it does not;
\* delete, existence check and create when replace is true and the index
\* existed; the delete alone, which raises, when replace is true and there
\* was no index.
C15_CallCount ==
    last.op = "init" =>
        last.value.calls =
            IF last.value.replace
            THEN IF last.value.existed THEN <<"delete", "exists", "create">> ELSE <<"delete">>
            ELSE IF last.value.existed THEN <<"exists">> ELSE <<"exists", "create">>

C15_Witness ==
    /\ last.op = "init" /\ last.ret = None
    /\ last.value.replace /\ last.value.existed
    /\ Len(last.value.calls) = 3

\* C16: create() on a handle whose index exists succeeds and leaves an
\* empty index with the handle's mapping and settings.
C16_CreateOverwrites ==
    (last.op = "create" /\ last.value.existed) =>
        /\ last.ret = None
        /\ indices["test"].exists /\ Size(indices["test"]) = 0
        /\ self.mapping # None => indices["test"].mapping = self.mapping
        /\ indices["test"].settings
               = (IF self.settings # None THEN self.settings ELSE default_settings)

\* C17: a bulk whose request the service answered returns True when every
\* operation succeeded (the success count is the number of operations
\* built, no failure is listed) and False otherwise, and raises nothing
\* although operations failed; the operations that did not fail are
\* applied: the last successful operation on an identifier decides what
\* the index holds under it, every successful operation without identifier
\* added a document, and no other document changed.
C17_Ok(v) == { i \in 1..Len(v.objects) : \A j \in 1..Len(v.errors[2]) : v.errors[2][j] # i }
C17_Last(v, i) ==
    /\ i \in C17_Ok(v)
    /\ "_id" \in DOMAIN v.objects[i]
    /\ \A j \in C17_Ok(v) :
          (j > i /\ "_id" \in DOMAIN v.objects[j]) => v.objects[j]["_id"] # v.objects[i]["_id"]

C17_BulkReturn ==
    last.op = "bulk" =>
        LET v == last.value
            docs == indices["test"].docs
            before == v.before["test"].docs
        IN  /\ (last.ret # "KeyError" /\ ~ Refused(v.objects)) => last.ret \in {"True", "False"}
            /\ last.ret \in {"True", "False"} =>
                 /\ last.ret = "True" <=> v.errors[1] = Len(v.objects)
                 /\ last.ret = "True" <=> v.errors[2] = <<>>
                 /\ Cardinality(C17_Ok(v)) = v.errors[1]
                 /\ \A i \in 1..Len(v.objects) :
                      C17_Last(v, i) =>
                        LET o == v.objects[i]
                        IN  /\ v.op_type = "index" =>
                                 o["_id"] \in DOMAIN docs /\ docs[o["_id"]] = o["_source"]
                            /\ v.op_type = "update" =>
                                 /\ o["_id"] \in DOMAIN docs
                                 /\ \A f \in DOMAIN o["doc"] : f \in DOMAIN docs[o["_id"]]
                                                              /\ docs[o["_id"]][f] = o["doc"][f]
                            /\ v.op_type = "delete" => o["_id"] \notin DOMAIN docs
                 /\ Cardinality(DOMAIN docs \ (DOMAIN before \cup { v.objects[i]["_id"] :
                                     i \in { j \in C17_Ok(v) : "_id" \in DOMAIN v.objects[j] } }))
                       = Cardinality({ i \in C17_Ok(v) : "_id" \notin DOMAIN v.objects[i] })
                 /\ \A k \in DOMAIN before :
                      (\A i \in C17_Ok(v) : "_id" \in DOMAIN v.objects[i] => v.objects[i]["_id"] # k)
                         => k \in DOMAIN docs /\ docs[k] = before[k]

C17_Witness ==
    /\ last.op = "bulk" /\ last.ret = "False"
    /\ last.value.op_type = "update" /\ ~ last.value.upsert
    /\ last.value.errors[1] = 1 /\ last.value.errors[2] = <<1>>
    /\ indices # last.value.before

\* C18: the remote requests of a scroll sequence are as many as the
\* next() calls made on it: none before the first, one per batch yielded,
\* one more for the empty response that finished it (or for the search
\* that raised); every continue-scroll request is one of them.  A next()
\* that returns adds exactly one request, a finished sequence never
\* changes again, and nothing but a next() adds a request.
C18_OneRequestPerNext ==
    /\ [](/\ gen.pc \in {"none", "created", "raised"} => gen.issued = <<>> /\ gen.out = <<>>
          /\ gen.pc = "yielded" => Len(gen.issued) = Len(gen.out)
          /\ gen.pc = "done" => Len(gen.issued) = Len(gen.out) + 1
          /\ Len(gen.presented) = IF gen.issued = <<>> THEN 0 ELSE Len(gen.issued) - 1)
    /\ [][ /\ (last'.op = "next" /\ last'.ret = None) => Len(gen'.issued) = Len(gen.issued) + 1
           /\ gen.pc \in {"done", "raised"} => gen' = gen
           /\ gen'.issued # gen.issued => last'.op = "next" ]_vars

C18_Witness ==
    /\ gen.pc = "done"
    /\ Len(gen.out) = 2 /\ Len(gen.issued) = 3 /\ Len(gen.presented) = 2

\* C19: a reindex whose constructor and search went through submits the
\* batches of the source scroll to the new handle's bulk one after the
\* other, each as the scroll yielded it and with reindex's identifier_key;
\* a bulk that returns False (per-item failures) does not stop it: the
\* batch after it is submitted, and after the last batch reindex returns
\* the new handle.  Only an exception of bulk ends it early.
C19_ReindexContinues ==
    last.op = "reindex" =>
        LET v == last.value
        IN  /\ Len(v.submitted) = Len(v.rets) /\ Len(v.submitted) <= Len(v.batches)
            /\ \A i \in 1..Len(v.submitted) :
                  v.submitted[i] = BulkCall(v.batches[i], v.identifier_key)
            /\ \A i \in 1..Len(v.rets) :
                  v.rets[i] \in {"True", "False"} =>
                      IF i < Len(v.batches) THEN Len(v.submitted) > i ELSE last.ret = None
            /\ last.ret = None =>
                  /\ Len(v.submitted) = Len(v.batches)
                  /\ new_index.index = v.new_index_name

C19_Witness ==
    /\ last.op = "reindex" /\ last.ret = None
    /\ Len(last.value.batches) = 2
    /\ last.value.rets = <<"False", "True">>
    /\ new_index.index = "new"

\* C20: a bulk under a non-empty identifier_key over a list in which some
\* document lacks that field raises KeyError with no request sent and the
\* remote state as it was; the documents ahead of the first one that lacks
\* the field have lost the field when keep_id_key is false (and are as
\* passed when it is true), the others are as passed.
C20_First(v) ==
    CHOOSE m \in 1..Len(v.data) :
        /\ v.identifier_key \notin DOMAIN v.data[m]
        /\ \A j \in 1..(m - 1) : v.identifier_key \in DOMAIN v.data[j]

C20_KeyErrorBeforeRequest ==
    (/\ last.op = "bulk"
     /\ last.value.identifier_key # None /\ last.value.identifier_key # ""
     /\ \E i \in 1..Len(last.value.data) : last.value.identifier_key \notin DOMAIN last.value.data[i])
    => LET v == last.value
       IN  /\ last.ret = "KeyError"
           /\ ~ v.sent
           /\ indices = v.before /\ nextAuto = 0
           /\ Len(v.after) = Len(v.data)
           /\ \A j \in 1..Len(v.data) :
                 v.after[j] = IF j < C20_First(v) /\ ~ v.keep_id_key
                              THEN Pop(v.data[j], v.identifier_key)
                              ELSE v.data[j]

C20_Witness ==
    /\ last.op = "bulk" /\ last.ret = "KeyError"
    /\ last.value.op_type = "index" /\ ~ last.value.keep_id_key
    /\ last.value.data = <<[id |-> "a", object |-> "s"], [object |-> "o"]>>
    /\ last.value.after[1] = [object |-> "s"]
    /\ indices["test"].exists

====
